---- MODULE Spec2Model ----
(***************************************************************************)
(* A model of the WhatsApp booking bot.                                    *)
(*                                                                         *)
(*   Spec       the calendar bot (WhatsApp_bot.py + calendar_helper.py):   *)
(*              the per-customer session dictionary State, the shared      *)
(*              calendar, and message handlers that interleave at the      *)
(*              calendar calls.                                            *)
(*   SpecSeq    the same bot run with one worker: a message is answered    *)
(*              before the next is taken, and the reply is recorded.       *)
(*   SpecHoliday the bot with one worker on a calendar in which the owner  *)
(*              has blocked a fortnight.                                   *)
(*   SpecOpen   the bot with one worker, reached by one customer and by    *)
(*              requests that carry no From field.                         *)
(*   SpecSlots  one call of calendar_helper.next_available_slots, a loop   *)
(*              iteration per step, on a range of calendars and arguments. *)
(*   SpecAgent  the in-memory agent (ai_agent.py): pending bookings,       *)
(*              confirmation by YES, and the appointments dictionary.      *)
(*   SpecAgentSeq the agent run with one worker.                           *)
(*   SpecStore  the SQLite booking store (booking.py) under a sequence of  *)
(*              save_booking, get_booking and cancel_booking calls.        *)
(*                                                                         *)
(* Instants are minutes counted from Monday 00:00 of the first week.       *)
(***************************************************************************)
EXTENDS Integers, Sequences, FiniteSets, Bags, TLC

VARIABLES
  State,        \* WhatsApp_bot.STATE: customer -> session record
  calendar,     \* the events of the calendar CALENDAR_ID
  nextId,       \* the id the calendar gives to the next inserted event
  inflight,     \* handlers between their availability check and their commit
  server,       \* how the bot is run: worker threads, replies recorded or
                \* not, and the From values that reach it
  last,         \* the reply the bot returned last, and to whom
  scan,         \* the frame of a call of calendar_helper.next_available_slots
  appointments, \* ai_agent.appointments: slot key -> booking
  user_state,   \* ai_agent.user_state: number -> pending / chosen_service
  clock,        \* ai_agent.now_local(), in minutes
  confirming,   \* ai_agent YES handlers between is_slot_taken and the write
  reply,        \* ai_agent: the last reply sent, and to whom
  db,           \* booking.py: the rows of table bookings in DB_PATH
  calls         \* booking.py: the calls made so far, and what they returned

botVars == <<State, calendar, nextId, inflight, server, last>>
agentVars == <<appointments, user_state, clock, confirming, reply>>
storeVars == <<db, calls>>
vars == <<botVars, scan, agentVars, storeVars>>

(***************************************************************************)
(* Bounds of the model.                                                    *)
(***************************************************************************)
MaxEvents == 2      \* events the calendar ever inserts
MaxInFlight == 2    \* handlers suspended between check and commit
MaxCalls == 4       \* calls of the booking store
Now == 0            \* datetime.now(TZ) while the modelled messages arrive

(***************************************************************************)
(* Time.                                                                   *)
(***************************************************************************)
DayMinutes == 24 * 60

At(day, h, m) == day * DayMinutes + h * 60 + m

Weekday(dt) == (dt \div DayMinutes) % 7      \* 0 = Monday ... 6 = Sunday

TimeOfDay(dt) == dt % DayMinutes

NoDt == 0 - 1       \* parse_dt found no date/time (None)

(***************************************************************************)
(* Configuration (WhatsApp_bot.py, CONFIG and MENU).                       *)
(***************************************************************************)
SLOT_STEP_MINUTES == 15

OPEN_DAYS == {0, 1, 2, 3, 4, 5}

OPEN_TIME == 9 * 60

CLOSE_TIME == 18 * 60

SearchDays == 14

SlotLimit == 3

DefaultMinutes == 45

ListLimit == 10

\* The first three entries of SERVICES (name, minutes); price, category and
\* aliases take no part in the state machine.
SERVICES ==
  << [name |-> "Haircut", minutes |-> 45],
     [name |-> "Skin Fade", minutes |-> 60],
     [name |-> "Shape Up", minutes |-> 20] >>

NoService == [name |-> "None", minutes |-> 0]

NoEvent == [id |-> 0, service |-> "None", minutes |-> 0]

SERVICE_BY_INDEX(n) == IF n \in DOMAIN SERVICES THEN SERVICES[n] ELSE NoService

(***************************************************************************)
(* Inputs.                                                                 *)
(***************************************************************************)
Customers == {"+447700900001", "+447700900002"}

\* Instants a customer's text resolves to: Mon 17:50, Tue 10:00, Sun 12:00.
TIMES == {At(0, 17, 50), At(1, 10, 0), At(6, 12, 0)}

\* Services a free-text message names.
TextServices == {SERVICES[1]}

\* Numbers a customer replies with.
Digits == {1}

\* A message that is no command, as the handler sees it: body.isdigit() and
\* int(body) (digit, 0 when the body is no number), parse_service(body) and
\* parse_dt(body); a bare number resolves to no date/time.
Bodies ==
  [digit : {0}, svc : TextServices \cup {NoService}, dt : TIMES \cup {NoDt}]
  \cup
  { [digit |-> n, svc |-> SERVICE_BY_INDEX(n), dt |-> NoDt] : n \in Digits }

(***************************************************************************)
(* Session store (WhatsApp_bot.py, STATE; STATE is a reserved word here).  *)
(***************************************************************************)
IdleSession ==
  [step |-> "idle", service |-> NoService, offered_slots |-> <<>>,
   pending_bookings |-> <<>>, resched_event |-> NoEvent]

st(S, c) == IF c \in DOMAIN S THEN S ELSE S @@ (c :> IdleSession)

\* reset that rebuilds the whole dictionary.
resetAll(S, c) == [x \in DOMAIN S \cup {c} |-> IdleSession]

reset(S, c) == [x \in DOMAIN S \cup {c} |-> IF x = c THEN IdleSession ELSE S[x]]

within_opening(dt) ==
  /\ Weekday(dt) \in OPEN_DAYS
  /\ ~(TimeOfDay(dt) < OPEN_TIME \/ TimeOfDay(dt) >= CLOSE_TIME)

(***************************************************************************)
(* The calendar (calendar_helper.py).  An event is                         *)
(*   [id, summary, start, end, phone]                                      *)
(* where phone is the number written into the event's description.         *)
(***************************************************************************)

\* events().list with both bounds inclusive.
EventsBetweenClosed(cal, time_min, time_max) ==
  {e \in cal : e.end >= time_min /\ e.start <= time_max}

\* events().list(timeMin, timeMax): the events that end after timeMin and
\* start before timeMax.
EventsBetween(cal, time_min, time_max) ==
  {e \in cal : e.end > time_min /\ e.start < time_max}

is_time_available(cal, start_dt, end_dt) ==
  EventsBetween(cal, start_dt, end_dt) = {}

\* The loop body with the cursor advanced only past a free window.
NasBodyStalls(cal, minutes, step_minutes, current, found) ==
  LET end_dt == current + minutes
      events == EventsBetween(cal, current, end_dt)
  IN  [current |-> IF events = {} THEN current + step_minutes ELSE current,
       found   |-> IF events = {} THEN Append(found, current) ELSE found]

\* One pass of the while loop of next_available_slots.
NasBody(cal, minutes, step_minutes, current, found) ==
  LET end_dt == current + minutes
      events == EventsBetween(cal, current, end_dt)
  IN  [current |-> current + step_minutes,
       found   |-> IF events = {} THEN Append(found, current) ELSE found]

NasGuard(limit, end_search, current, found) ==
  current < end_search /\ Len(found) < limit

\* The passes the while loop makes at most: current grows by step_minutes
\* in every pass and the loop ends once it reaches end_search.
NasPasses(step_minutes, end_search, current) ==
  IF current < end_search
  THEN (end_search - current + step_minutes - 1) \div step_minutes
  ELSE 0

\* The while loop run for at most `passes` passes from the frame f (current,
\* found), stopping where its condition fails.  The passes are taken half
\* by half, so that a search through the whole window nests a few levels.
RECURSIVE NasRun(_, _, _, _, _, _, _)
NasRun(cal, minutes, step_minutes, limit, end_search, f, passes) ==
  IF ~NasGuard(limit, end_search, f.current, f.found) THEN f
  ELSE IF passes <= 1
  THEN NasBody(cal, minutes, step_minutes, f.current, f.found)
  ELSE LET half == passes \div 2
           mid == NasRun(cal, minutes, step_minutes, limit, end_search,
                         f, half)
       IN  NasRun(cal, minutes, step_minutes, limit, end_search,
                  mid, passes - half)

NasLoop(cal, minutes, step_minutes, limit, end_search, current, found) ==
  NasRun(cal, minutes, step_minutes, limit, end_search,
         [current |-> current, found |-> found],
         NasPasses(step_minutes, end_search, current)).found

next_available_slots(cal, minutes, from_dt, step_minutes, limit) ==
  NasLoop(cal, minutes, step_minutes, limit,
          from_dt + SearchDays * DayMinutes, from_dt, <<>>)

NewEvent(id, start_dt, minutes, service_name, user_phone) ==
  [id |-> id, summary |-> service_name, start |-> start_dt,
   end |-> start_dt + minutes, phone |-> user_phone]

create_booking_event(cal, id, start_dt, minutes, service_name, user_phone) ==
  cal \cup {NewEvent(id, start_dt, minutes, service_name, user_phone)}

delete_booking_event(cal, event_id) == {e \in cal : e.id # event_id}

update_booking_time(cal, event_id, new_start, minutes) ==
  { IF e.id = event_id
    THEN [e EXCEPT !.start = new_start, !.end = new_start + minutes]
    ELSE e : e \in cal }

\* The characters of the From values of the model; a request that carries
\* no From field gives request.form.get("From", "") = "".
PhoneText(phone) ==
  CASE phone = "+447700900001" ->
         <<"+", "4", "4", "7", "7", "0", "0", "9", "0", "0", "0", "0", "1">>
    [] phone = "+447700900002" ->
         <<"+", "4", "4", "7", "7", "0", "0", "9", "0", "0", "0", "0", "2">>
    [] OTHER -> <<>>

\* "WhatsApp booking for "
BookingFor ==
  <<"W", "h", "a", "t", "s", "A", "p", "p", " ", "b", "o", "o", "k", "i",
    "n", "g", " ", "f", "o", "r", " ">>

\* f"WhatsApp booking for {user_phone}"; an event the bot did not create
\* (phone "none") has no description.
Description(e) ==
  IF e.phone = "none" THEN <<>> ELSE BookingFor \o PhoneText(e.phone)

\* t in text, on strings.
Contains(text, t) ==
  \E i \in 0..(Len(text) - Len(t)) : \A j \in 1..Len(t) : text[i + j] = t[j]

\* "crude match: just check phone number appears in description"
PhoneInDescription(user_phone, e) ==
  Contains(Description(e), PhoneText(user_phone))

Earlier(a, b) == a.start < b.start \/ (a.start = b.start /\ a.id <= b.id)

RECURSIVE SortByStart(_)
SortByStart(S) ==
  IF S = {} THEN <<>>
  ELSE LET first == CHOOSE e \in S : \A o \in S : Earlier(e, o)
       IN  <<first>> \o SortByStart(S \ {first})

Booking(e) == [id |-> e.id, service |-> e.summary, when |-> e.start]

Take(s, n) == SubSeq(s, 1, IF Len(s) < n THEN Len(s) ELSE n)

list_user_bookings(cal, user_phone, limit) ==
  LET upcoming == {e \in cal : e.end > Now}
      mine == {e \in upcoming : PhoneInDescription(user_phone, e)}
      sorted == SortByStart(mine)
  IN  Take([i \in 1..Len(sorted) |-> Booking(sorted[i])], limit)

EventIds(cal) == {e.id : e \in cal}

(***************************************************************************)
(* The webhook handler whatsapp() of WhatsApp_bot.py, one action per       *)
(* branch.  c is the sender (From), b a body of Bodies.  A handler that    *)
(* found its window free is suspended in inflight until its calendar       *)
(* mutation (Commit): other handlers run in between.  ENABLE_LLM has its   *)
(* default, off.                                                           *)
(***************************************************************************)
\* A handler of WhatsApp_bot.py touches neither a running slot scan nor the
\* state of ai_agent.py, which is another process.
BotOnly == UNCHANGED <<scan, agentVars, storeVars>>

CalendarUntouched == BotOnly /\ UNCHANGED <<calendar, nextId, inflight>>

\* Room for one more suspended handler, and for one more event when the
\* handler is about to insert one.
Inserting(bag) == {r \in BagToSet(bag) : r.op = "create"}

InsertsPending(bag) ==
  LET Count(r) == CopiesIn(r, bag)
      RECURSIVE Sum(_)
      Sum(S) == IF S = {} THEN 0
                ELSE LET r == CHOOSE x \in S : TRUE
                     IN  Count(r) + Sum(S \ {r})
  IN  Sum(Inserting(bag))

CanSuspend(op) ==
  /\ BagCardinality(inflight) < MaxInFlight
  /\ op = "create" => (nextId - 1) + InsertsPending(inflight) < MaxEvents

\* What a suspended handler holds: its locals (op, the call it is about to
\* make; cust, from_number; dt; minutes; name, the service name; id, the
\* event to move) and, of the session it read when it began, the step that
\* dispatched it, the service selected before this message (draft, kept for
\* an insertion) and the event under reschedule (resched).
Suspended(op, c, s, dt, minutes, name, id) ==
  [op |-> op, cust |-> c, step |-> s.step, dt |-> dt, minutes |-> minutes,
   name |-> name, id |-> id,
   draft |-> IF op = "create" THEN s.service ELSE NoService,
   resched |-> s.resched_event.id]

\* A worker of the server is free to take the next request.
Free == BagCardinality(inflight) < server.threads

\* The handler returns str(resp) with this reply; the server stays as it is.
\* digit is the number the message consisted of, 0 for any other message.
Says(c, kind, digit) ==
  /\ server' = server
  /\ last' = IF server.log THEN [to |-> c, kind |-> kind, digit |-> digit]
             ELSE last

\* The handler has not returned yet.
Silent == UNCHANGED <<server, last>>

\* low in {"menu", "start", "home"}
CmdMenu(c) ==
  /\ Free
  /\ State' = reset(State, c)
  /\ Says(c, "menu", 0)
  /\ CalendarUntouched

\* low in {"help", "commands"}
CmdHelp(c) ==
  /\ Free
  /\ State' = st(State, c)
  /\ Says(c, "help", 0)
  /\ CalendarUntouched

\* is_greeting(body) and s["step"] == "idle": the menu, sent on a greeting.
Greeting(c) ==
  /\ Free
  /\ st(State, c)[c].step = "idle"
  /\ State' = st(State, c)
  /\ Says(c, "greeting", 0)
  /\ CalendarUntouched

\* The thanks branch taking the service the message names into the session.
ThanksKeepsService(c, b) ==
  /\ Free
  /\ b.digit = 0
  /\ State' = IF b.svc = NoService THEN st(State, c)
              ELSE [st(State, c) EXCEPT ![c].service = b.svc]
  /\ Says(c, "thanks", 0)
  /\ CalendarUntouched

\* is_thanks(body): a thanks word somewhere in the message, whatever else
\* the message holds (b: the service and the date/time it names); a message
\* of digits only holds no thanks word.
Thanks(c, b) ==
  /\ Free
  /\ b.digit = 0
  /\ State' = st(State, c)
  /\ Says(c, "thanks", 0)
  /\ CalendarUntouched

CmdBack(c) ==
  /\ Free
  /\ State' = reset(State, c)
  /\ Says(c, "back", 0)
  /\ CalendarUntouched

\* MY BOOKINGS with the session left as it is.
MyBookingsKeepsSession(c) ==
  /\ Free
  /\ State' = st(State, c)
  /\ \/ Says(c, IF list_user_bookings(calendar, c, ListLimit) = <<>>
                THEN "none_upcoming" ELSE "bookings", 0)
     \/ Says(c, "listing_failed", 0)
  /\ CalendarUntouched

\* MY BOOKINGS: the listing only shapes the reply.
MyBookings(c) ==
  /\ Free
  /\ State' = reset(State, c)
  /\ \/ Says(c, IF list_user_bookings(calendar, c, ListLimit) = <<>>
                THEN "none_upcoming" ELSE "bookings", 0)
     \/ Says(c, "listing_failed", 0)   \* list_user_bookings raised
  /\ CalendarUntouched

\* The cancel branch entering cancel_pick whatever the listing holds.
CmdCancelAlways(c) ==
  LET S1 == st(State, c)
      bookings == list_user_bookings(calendar, c, ListLimit)
  IN  /\ Free
      /\ \/ /\ State' = [S1 EXCEPT ![c].step = "cancel_pick",
                                   ![c].pending_bookings = bookings]
            /\ Says(c, IF bookings = <<>> THEN "no_bookings"
                       ELSE "cancel_which", 0)
         \/ /\ State' = S1
            /\ Says(c, "load_failed", 0)
      /\ CalendarUntouched

CmdCancel(c) ==
  LET S1 == st(State, c)
      bookings == list_user_bookings(calendar, c, ListLimit)
  IN  /\ Free
      /\ \/ /\ State' = IF bookings = <<>> THEN S1
                        ELSE [S1 EXCEPT ![c].step = "cancel_pick",
                                        ![c].pending_bookings = bookings]
            /\ Says(c, IF bookings = <<>> THEN "no_bookings"
                       ELSE "cancel_which", 0)
         \/ /\ State' = S1             \* list_user_bookings raised
            /\ Says(c, "load_failed", 0)
      /\ CalendarUntouched

\* The cancel_pick branch deleting the booking listed last, whatever the
\* number sent.
CancelPickLast(c, b) ==
  LET S1 == st(State, c)
      bookings == S1[c].pending_bookings
  IN  /\ Free
      /\ S1[c].step = "cancel_pick"
      /\ IF b.digit > 0 /\ 1 <= b.digit /\ b.digit <= Len(bookings)
         THEN LET chosen == bookings[Len(bookings)]
              IN  /\ \/ /\ chosen.id \in EventIds(calendar)
                        /\ calendar' = delete_booking_event(calendar, chosen.id)
                        /\ Says(c, "cancelled", b.digit)
                     \/ /\ calendar' = calendar
                        /\ Says(c, "cancel_failed", b.digit)
                  /\ State' = reset(State, c)
         ELSE /\ State' = S1
              /\ calendar' = calendar
              /\ Says(c, "invalid_number", b.digit)
      /\ UNCHANGED <<nextId, inflight>>
      /\ BotOnly

CancelPick(c, b) ==
  LET S1 == st(State, c)
      bookings == S1[c].pending_bookings
  IN  /\ Free
      /\ S1[c].step = "cancel_pick"
      /\ IF b.digit > 0 /\ 1 <= b.digit /\ b.digit <= Len(bookings)
         THEN LET chosen == bookings[b.digit]
              IN  /\ \/ /\ chosen.id \in EventIds(calendar)
                        /\ calendar' = delete_booking_event(calendar, chosen.id)
                        /\ Says(c, "cancelled", b.digit)
                     \/ /\ calendar' = calendar      \* the call raised
                        /\ Says(c, "cancel_failed", b.digit)
                  /\ State' = reset(State, c)
         ELSE /\ State' = S1
              /\ calendar' = calendar
              /\ Says(c, "invalid_number", b.digit)
      /\ UNCHANGED <<nextId, inflight>>
      /\ BotOnly

\* "reschedule" is tested after the cancel_pick branch.
CmdReschedule(c) ==
  LET S1 == st(State, c)
      bookings == list_user_bookings(calendar, c, ListLimit)
  IN  /\ Free
      /\ S1[c].step # "cancel_pick"
      /\ \/ /\ State' = IF bookings = <<>> THEN S1
                        ELSE [S1 EXCEPT ![c].step = "resched_pick",
                                        ![c].pending_bookings = bookings]
            /\ Says(c, IF bookings = <<>> THEN "no_bookings"
                       ELSE "reschedule_which", 0)
         \/ /\ State' = S1             \* list_user_bookings raised
            /\ Says(c, "load_failed", 0)
      /\ CalendarUntouched

MinutesFor(service_name) ==
  LET hits == {i \in DOMAIN SERVICES : SERVICES[i].name = service_name}
  IN  IF hits = {} THEN DefaultMinutes
      ELSE SERVICES[CHOOSE i \in hits : \A j \in hits : i <= j].minutes

\* The resched_pick branch giving up the sub-flow on a reply that is no
\* number of the list.
ReschedPickGivesUp(c, b) ==
  LET S1 == st(State, c)
      bookings == S1[c].pending_bookings
  IN  /\ Free
      /\ S1[c].step = "resched_pick"
      /\ IF b.digit > 0 /\ 1 <= b.digit /\ b.digit <= Len(bookings)
         THEN LET chosen == bookings[b.digit]
              IN  /\ State' = [S1 EXCEPT
                       ![c].resched_event =
                          [id |-> chosen.id, service |-> chosen.service,
                           minutes |-> MinutesFor(chosen.service)],
                       ![c].step = "resched_time"]
                  /\ Says(c, "send_new_time", b.digit)
         ELSE /\ State' = reset(State, c)
              /\ Says(c, "invalid_number", b.digit)
      /\ CalendarUntouched

ReschedPick(c, b) ==
  LET S1 == st(State, c)
      bookings == S1[c].pending_bookings
  IN  /\ Free
      /\ S1[c].step = "resched_pick"
      /\ IF b.digit > 0 /\ 1 <= b.digit /\ b.digit <= Len(bookings)
         THEN LET chosen == bookings[b.digit]
              IN  /\ State' = [S1 EXCEPT
                       ![c].resched_event =
                          [id |-> chosen.id, service |-> chosen.service,
                           minutes |-> MinutesFor(chosen.service)],
                       ![c].step = "resched_time"]
                  /\ Says(c, "send_new_time", b.digit)
         ELSE /\ State' = S1
              /\ Says(c, "invalid_number", b.digit)
      /\ CalendarUntouched

ReschedTime(c, b) ==
  LET S1 == st(State, c)
      s == S1[c]
      info == s.resched_event
      dt == b.dt
      minutes == IF info = NoEvent THEN DefaultMinutes ELSE info.minutes
      end_dt == dt + minutes
      offered == next_available_slots(calendar, minutes,
                    dt + SLOT_STEP_MINUTES, SLOT_STEP_MINUTES, SlotLimit)
  IN  /\ Free
      /\ s.step = "resched_time"
      /\ IF dt = NoDt
         THEN State' = S1 /\ inflight' = inflight /\ Says(c, "bad_time", b.digit)
         ELSE IF ~within_opening(dt)
         THEN /\ State' = S1 /\ inflight' = inflight
              /\ Says(c, "outside_hours", b.digit)
         ELSE IF ~is_time_available(calendar, dt, end_dt)
         THEN /\ State' = IF offered = <<>> THEN S1
                          ELSE [S1 EXCEPT
                                 ![c].step = "offer_slots",
                                 ![c].offered_slots = offered,
                                 ![c].service = [name |-> info.service,
                                                 minutes |-> minutes]]
              /\ inflight' = inflight
              /\ Says(c, IF offered = <<>> THEN "taken_no_alternatives"
                         ELSE "offered", b.digit)
         ELSE /\ CanSuspend("update")
              /\ State' = S1
              /\ inflight' = inflight (+) SetToBag(
                    {Suspended("update", c, s, dt, minutes, info.service, info.id)})
              /\ Silent
      /\ UNCHANGED <<calendar, nextId>>
      /\ BotOnly

\* The time a message means in step offer_slots: the offered slot of that
\* index, or what parse_dt makes of the text.
PickedDt(offered, b) ==
  IF b.digit \in {1, 2, 3}
  THEN (IF b.digit <= Len(offered) THEN offered[b.digit] ELSE NoDt)
  ELSE b.dt

\* The offer_slots branch booking the chosen start without asking again.
OfferSlotsNoRecheck(c, b) ==
  LET S1 == st(State, c)
      s == S1[c]
      offered == s.offered_slots
      svc == s.service
      dt == PickedDt(offered, b)
      minutes == IF svc # NoService THEN svc.minutes ELSE DefaultMinutes
      name == IF svc # NoService THEN svc.name ELSE "Booking"
  IN  /\ Free
      /\ s.step = "offer_slots"
      /\ IF dt = NoDt
         THEN State' = S1 /\ inflight' = inflight /\ Says(c, "pick_again", b.digit)
         ELSE IF ~within_opening(dt)
         THEN /\ State' = S1 /\ inflight' = inflight
              /\ Says(c, "outside_hours", b.digit)
         ELSE /\ CanSuspend("create")
              /\ State' = S1
              /\ inflight' = inflight (+) SetToBag(
                    {Suspended("create", c, s, dt, minutes, name, 0)})
              /\ Silent
      /\ UNCHANGED <<calendar, nextId>>
      /\ BotOnly

OfferSlots(c, b) ==
  LET S1 == st(State, c)
      s == S1[c]
      offered == s.offered_slots
      svc == s.service
      dt == PickedDt(offered, b)
      minutes == IF svc # NoService THEN svc.minutes ELSE DefaultMinutes
      name == IF svc # NoService THEN svc.name ELSE "Booking"
      end_dt == dt + minutes
  IN  /\ Free
      /\ s.step = "offer_slots"
      /\ IF dt = NoDt
         THEN State' = S1 /\ inflight' = inflight /\ Says(c, "pick_again", b.digit)
         ELSE IF ~within_opening(dt)
         THEN /\ State' = S1 /\ inflight' = inflight
              /\ Says(c, "outside_hours", b.digit)
         ELSE IF ~is_time_available(calendar, dt, end_dt)
         THEN /\ State' = S1 /\ inflight' = inflight
              /\ Says(c, "still_taken", b.digit)
         ELSE /\ CanSuspend("create")
              /\ State' = S1
              /\ inflight' = inflight (+) SetToBag(
                    {Suspended("create", c, s, dt, minutes, name, 0)})
              /\ Silent
      /\ UNCHANGED <<calendar, nextId>>
      /\ BotOnly

\* The idle branch asking for a time without storing the service.
IdleFlowForgetsService(c, b) ==
  LET S1 == st(State, c)
      s == S1[c]
      svc == b.svc
      dt == b.dt
      minutes == svc.minutes
      end_dt == dt + minutes
      offered == next_available_slots(calendar, minutes,
                    dt + SLOT_STEP_MINUTES, SLOT_STEP_MINUTES, SlotLimit)
  IN  /\ Free
      /\ s.step = "idle"
      /\ IF svc = NoService
         THEN State' = S1 /\ inflight' = inflight /\ Says(c, "hint", b.digit)
         ELSE IF dt = NoDt
         THEN /\ State' = [S1 EXCEPT ![c].step = "await_time"]
              /\ inflight' = inflight
              /\ Says(c, "ask_time", b.digit)
         ELSE IF ~within_opening(dt)
         THEN /\ State' = S1 /\ inflight' = inflight
              /\ Says(c, "outside_hours", b.digit)
         ELSE IF ~is_time_available(calendar, dt, end_dt)
         THEN /\ State' = [S1 EXCEPT ![c].step = "offer_slots",
                                     ![c].service = svc,
                                     ![c].offered_slots = offered]
              /\ inflight' = inflight
              /\ Says(c, IF offered = <<>> THEN "taken_no_alternatives"
                         ELSE "offered", b.digit)
         ELSE /\ CanSuspend("create")
              /\ State' = S1
              /\ inflight' = inflight (+) SetToBag(
                    {Suspended("create", c, s, dt, minutes, svc.name, 0)})
              /\ Silent
      /\ UNCHANGED <<calendar, nextId>>
      /\ BotOnly

IdleFlow(c, b) ==
  LET S1 == st(State, c)
      s == S1[c]
      svc == b.svc
      dt == b.dt
      minutes == svc.minutes
      end_dt == dt + minutes
      offered == next_available_slots(calendar, minutes,
                    dt + SLOT_STEP_MINUTES, SLOT_STEP_MINUTES, SlotLimit)
  IN  /\ Free
      /\ s.step = "idle"
      /\ IF svc = NoService
         THEN State' = S1 /\ inflight' = inflight /\ Says(c, "hint", b.digit)
         ELSE IF dt = NoDt
         THEN /\ State' = [S1 EXCEPT ![c].step = "await_time",
                                     ![c].service = svc]
              /\ inflight' = inflight
              /\ Says(c, "ask_time", b.digit)
         ELSE IF ~within_opening(dt)
         THEN /\ State' = S1 /\ inflight' = inflight
              /\ Says(c, "outside_hours", b.digit)
         ELSE IF ~is_time_available(calendar, dt, end_dt)
         THEN /\ State' = [S1 EXCEPT ![c].step = "offer_slots",
                                     ![c].service = svc,
                                     ![c].offered_slots = offered]
              /\ inflight' = inflight
              /\ Says(c, IF offered = <<>> THEN "taken_no_alternatives"
                         ELSE "offered", b.digit)
         ELSE /\ CanSuspend("create")
              /\ State' = S1
              /\ inflight' = inflight (+) SetToBag(
                    {Suspended("create", c, s, dt, minutes, svc.name, 0)})
              /\ Silent
      /\ UNCHANGED <<calendar, nextId>>
      /\ BotOnly

\* The await_time branch announcing alternatives it does not store.
AwaitTimeKeepsStep(c, b) ==
  LET S1 == st(State, c)
      s == S1[c]
      svc == s.service
      dt == b.dt
      minutes == svc.minutes
      end_dt == dt + minutes
      offered == next_available_slots(calendar, minutes,
                    dt + SLOT_STEP_MINUTES, SLOT_STEP_MINUTES, SlotLimit)
  IN  /\ Free
      /\ s.step = "await_time"
      /\ IF svc = NoService
         THEN /\ State' = reset(State, c) /\ inflight' = inflight
              /\ Says(c, "menu", b.digit)
         ELSE IF dt = NoDt
         THEN State' = S1 /\ inflight' = inflight /\ Says(c, "bad_time", b.digit)
         ELSE IF ~within_opening(dt)
         THEN /\ State' = S1 /\ inflight' = inflight
              /\ Says(c, "outside_hours", b.digit)
         ELSE IF ~is_time_available(calendar, dt, end_dt)
         THEN /\ State' = S1
              /\ inflight' = inflight
              /\ Says(c, IF offered = <<>> THEN "taken_no_alternatives"
                         ELSE "offered", b.digit)
         ELSE /\ CanSuspend("create")
              /\ State' = S1
              /\ inflight' = inflight (+) SetToBag(
                    {Suspended("create", c, s, dt, minutes, svc.name, 0)})
              /\ Silent
      /\ UNCHANGED <<calendar, nextId>>
      /\ BotOnly

AwaitTime(c, b) ==
  LET S1 == st(State, c)
      s == S1[c]
      svc == s.service
      dt == b.dt
      minutes == svc.minutes
      end_dt == dt + minutes
      offered == next_available_slots(calendar, minutes,
                    dt + SLOT_STEP_MINUTES, SLOT_STEP_MINUTES, SlotLimit)
  IN  /\ Free
      /\ s.step = "await_time"
      /\ IF svc = NoService
         THEN /\ State' = reset(State, c) /\ inflight' = inflight
              /\ Says(c, "menu", b.digit)
         ELSE IF dt = NoDt
         THEN State' = S1 /\ inflight' = inflight /\ Says(c, "bad_time", b.digit)
         ELSE IF ~within_opening(dt)
         THEN /\ State' = S1 /\ inflight' = inflight
              /\ Says(c, "outside_hours", b.digit)
         ELSE IF ~is_time_available(calendar, dt, end_dt)
         THEN /\ State' = [S1 EXCEPT ![c].step = "offer_slots",
                                     ![c].offered_slots = offered]
              /\ inflight' = inflight
              /\ Says(c, IF offered = <<>> THEN "taken_no_alternatives"
                         ELSE "offered", b.digit)
         ELSE /\ CanSuspend("create")
              /\ State' = S1
              /\ inflight' = inflight (+) SetToBag(
                    {Suspended("create", c, s, dt, minutes, svc.name, 0)})
              /\ Silent
      /\ UNCHANGED <<calendar, nextId>>
      /\ BotOnly

\* The time a message means to the step that handles it, once the step is
\* past its parsing and its opening-hours test; NoDt when the handler
\* returns before it looks at the calendar.
CheckedDt(s, b) ==
  LET dt == IF s.step = "offer_slots" THEN PickedDt(s.offered_slots, b)
            ELSE b.dt
      asks == \/ s.step = "idle" /\ b.svc # NoService
              \/ s.step = "await_time" /\ s.service # NoService
              \/ s.step \in {"offer_slots", "resched_time"}
  IN  IF asks /\ dt # NoDt /\ within_opening(dt) THEN dt ELSE NoDt

\* is_time_available, or the next_available_slots that follows it, raises.
\* Neither call is inside a try: the exception leaves whatsapp() before the
\* session is written and before any reply is returned.
AvailabilityRaises(c, b) ==
  LET S1 == st(State, c)
  IN  /\ Free
      /\ CheckedDt(S1[c], b) # NoDt
      /\ State' = S1
      /\ Says(c, "raised", b.digit)
      /\ CalendarUntouched

\* The suspended handler r resumes: create_booking_event or
\* update_booking_time returns, then reset(from_number).
Commit(r) ==
  /\ BagIn(r, inflight)
  /\ inflight' = inflight (-) SetToBag({r})
  /\ State' = reset(State, r.cust)
  /\ IF r.op = "create"
     THEN /\ calendar' = create_booking_event(calendar, nextId, r.dt,
                            r.minutes, r.name, r.cust)
          /\ nextId' = nextId + 1
          /\ Says(r.cust, "booked", 0)
     ELSE /\ r.id \in EventIds(calendar)
          /\ calendar' = update_booking_time(calendar, r.id, r.dt, r.minutes)
          /\ nextId' = nextId
          /\ Says(r.cust, "rescheduled", 0)
  /\ BotOnly

\* The except branch replying without reset(from_number).
CommitFailsKeepsSession(r) ==
  /\ BagIn(r, inflight)
  /\ inflight' = inflight (-) SetToBag({r})
  /\ State' = st(State, r.cust)
  /\ Says(r.cust, "failed", 0)
  /\ UNCHANGED <<calendar, nextId>>
  /\ BotOnly

\* The calendar call of the suspended handler raises: the except branch
\* replies and resets the session.
CommitFails(r) ==
  /\ BagIn(r, inflight)
  /\ inflight' = inflight (-) SetToBag({r})
  /\ State' = reset(State, r.cust)
  /\ Says(r.cust, "failed", 0)
  /\ UNCHANGED <<calendar, nextId>>
  /\ BotOnly

(***************************************************************************)
(* States of the parts that a specification leaves alone.                  *)
(***************************************************************************)
NoScan == [pc |-> "none"]

NoPending == [service |-> "none", dt |-> NoDt, granted |-> 0]
NoReply == [to |-> "none", kind |-> "none"]

NoAnswer == [to |-> "none", kind |-> "none", digit |-> 0]

\* The server of app.run(): requests are handled in threads.  The model
\* lets MaxInFlight handlers wait for the calendar while one more runs,
\* and keeps no record of the replies.
Threaded == [threads |-> MaxInFlight + 1, log |-> FALSE, senders |-> Customers]

\* One request at a time, each reply recorded.
OneByOne == [threads |-> 1, log |-> TRUE, senders |-> Customers]

(***************************************************************************)
(* The booking store (booking.py): table bookings of the SQLite file       *)
(* DB_PATH, phone TEXT PRIMARY KEY, service, day, time, created_at.  A row *)
(* is [phone, service, day, time, created_at].                             *)
(***************************************************************************)
StorePhones == Customers

StoreServices == {"haircut", "beard"}

StoreDays == {"Monday"}

StoreTimes == {"10:00", "17:30"}

\* get_booking's None.
NoBooking == [service |-> "None", day |-> "None", time |-> "None"]

\* INSERT INTO without OR REPLACE, on a table without the primary key.
save_bookingAppends(tbl, phone, service, day, time_str, utcnow) ==
  tbl \cup {[phone |-> phone, service |-> service, day |-> day,
             time |-> time_str, created_at |-> utcnow]}

\* INSERT OR REPLACE: the row that holds the same primary key is deleted
\* and the new row inserted.
save_booking(tbl, phone, service, day, time_str, utcnow) ==
  {r \in tbl : r.phone # phone}
    \cup {[phone |-> phone, service |-> service, day |-> day,
           time |-> time_str, created_at |-> utcnow]}

\* SELECT service, day, time ... WHERE phone=?; fetchone(): the first row
\* of the result, in the order the rows were inserted; None when it is
\* empty.
get_booking(tbl, phone) ==
  LET rows == {r \in tbl : r.phone = phone}
  IN  IF rows = {} THEN NoBooking
      ELSE LET row == CHOOSE r \in rows :
                        \A x \in rows : r.created_at <= x.created_at
           IN  [service |-> row.service, day |-> row.day, time |-> row.time]

\* DELETE FROM bookings WHERE phone=?
cancel_booking(tbl, phone) == {r \in tbl : r.phone # phone}

\* A call as it is recorded: the arguments, and the value returned.
Call(op, phone, service, day, time_str, result) ==
  [op |-> op, phone |-> phone, service |-> service, day |-> day,
   time |-> time_str, result |-> result]

\* A database file created by _db() on the first call.
StoreEmpty ==
  /\ db = {}
  /\ calls = << >>

StoreOnly == UNCHANGED <<botVars, scan, agentVars>>

\* utcnow() of a call, counted in calls.
UtcNow == Len(calls)

SaveBooking(phone, service, day, time_str) ==
  /\ Len(calls) < MaxCalls
  /\ db' = save_booking(db, phone, service, day, time_str, UtcNow)
  /\ calls' = Append(calls, Call("save", phone, service, day, time_str,
                                 NoBooking))
  /\ StoreOnly

GetBooking(phone) ==
  /\ Len(calls) < MaxCalls
  /\ db' = db
  /\ calls' = Append(calls, Call("get", phone, "None", "None", "None",
                                 get_booking(db, phone)))
  /\ StoreOnly

CancelBooking(phone) ==
  /\ Len(calls) < MaxCalls
  /\ db' = cancel_booking(db, phone)
  /\ calls' = Append(calls, Call("cancel", phone, "None", "None", "None",
                                 NoBooking))
  /\ StoreOnly

BotIdle ==
  /\ State = [c \in {} |-> IdleSession]
  /\ calendar = {}
  /\ nextId = 1
  /\ inflight = EmptyBag
  /\ last = NoAnswer

AgentIdle ==
  /\ appointments = << >>
  /\ user_state = << >>
  /\ clock = 0
  /\ confirming = EmptyBag
  /\ reply = NoReply

Init ==
  /\ BotIdle
  /\ server = Threaded
  /\ scan = NoScan
  /\ AgentIdle
  /\ StoreEmpty

\* The same bot behind a server that handles one request at a time.
InitSeq ==
  /\ BotIdle
  /\ server = OneByOne
  /\ scan = NoScan
  /\ AgentIdle
  /\ StoreEmpty

Next ==
  \/ \E c \in server.senders :
       \/ CmdMenu(c) \/ CmdHelp(c) \/ Greeting(c) \/ CmdBack(c)
       \/ MyBookings(c) \/ CmdCancel(c) \/ CmdReschedule(c)
  \/ \E c \in server.senders, b \in Bodies :
       \/ CancelPick(c, b) \/ ReschedPick(c, b) \/ ReschedTime(c, b)
       \/ OfferSlots(c, b) \/ IdleFlow(c, b) \/ AwaitTime(c, b)
       \/ AvailabilityRaises(c, b) \/ Thanks(c, b)
  \/ \E r \in BagToSet(inflight) : Commit(r) \/ CommitFails(r)

Spec == Init /\ [][Next]_vars

SpecSeq == InitSeq /\ [][Next]_vars

\* The booking store under the calls of a caller.
InitStore ==
  /\ BotIdle
  /\ server = OneByOne
  /\ scan = NoScan
  /\ AgentIdle
  /\ StoreEmpty

NextStore ==
  \/ \E phone \in StorePhones, service \in StoreServices,
        day \in StoreDays, time_str \in StoreTimes :
       SaveBooking(phone, service, day, time_str)
  \/ \E phone \in StorePhones : GetBooking(phone)
  \/ \E phone \in StorePhones : CancelBooking(phone)

SpecStore == InitStore /\ [][NextStore]_vars

(***************************************************************************)
(* Properties of the calendar bot, checked under Spec.                     *)
(***************************************************************************)
Overlap(a_start, a_end, b_start, b_end) == a_start < b_end /\ b_start < a_end

\* The suspended handler r resumes in this step.
Resumes(r) == CopiesIn(r, inflight') < CopiesIn(r, inflight)

\* C1: no two events of the calendar have overlapping half-open intervals
\* [start, end), whatever the interleaving of the customers' handlers.
C1_NoDoubleBooking ==
  \A a \in calendar, b \in calendar :
    a.id # b.id => ~Overlap(a.start, a.end, b.start, b.end)

\* C2: every booking on the calendar starts on an open day at or after
\* opening time and ends, start + duration, at or before closing time of the
\* same day.
C2_OpeningHoursContainment ==
  \A e \in calendar :
    /\ Weekday(e.start) \in OPEN_DAYS
    /\ TimeOfDay(e.start) >= OPEN_TIME
    /\ TimeOfDay(e.start) + (e.end - e.start) <= CLOSE_TIME

\* C3: every event inserted for a customer comes from a handler
\* that found the customer's session in a confirming step for that service
\* and start time and received an affirmative reply.
C3_CreatedOnlyFromConfirm ==
  [][\A e \in calendar' :
       e.id \notin EventIds(calendar) =>
         \E r \in BagToSet(inflight) :
           /\ Resumes(r)
           /\ r.step = "confirming"
           /\ e = NewEvent(e.id, r.dt, r.draft.minutes, r.draft.name, r.cust)]_vars

C7_RescheduleOntoBusyChangesNothing ==
  [][\A r \in BagToSet(inflight) :
       ( /\ Resumes(r)
         /\ r.op = "update"
         /\ \E b \in calendar :
              b.id # r.id /\ Overlap(r.dt, r.dt + r.minutes, b.start, b.end) )
       => calendar' = calendar]_vars

(***************************************************************************)
(* calendar_helper.next_available_slots, one loop iteration per step.      *)
(* SpecSlots starts a call on each of the calendars and arguments below    *)
(* and runs its while loop to the return.                                  *)
(***************************************************************************)
Busy(id, start_dt, end_dt) ==
  [id |-> id, summary |-> "Busy", start |-> start_dt, end |-> end_dt,
   phone |-> "none"]

\* The arguments WhatsApp_bot passes as from_dt: the refused time plus one
\* step.  Mon 17:50, Tue 10:00 and Sat 17:15 were refused.
ScanFrom ==
  {At(0, 17, 50) + SLOT_STEP_MINUTES, At(1, 10, 0) + SLOT_STEP_MINUTES,
   At(5, 17, 15) + SLOT_STEP_MINUTES}

ScanMinutes == {SERVICES[1].minutes, SERVICES[3].minutes}

\* An empty calendar; one booking on Tuesday morning; a calendar blocked for
\* the whole search window; one blocked up to the last half hour of the
\* window that starts at Mon 18:05.
ScanCalendars ==
  { {},
    {NewEvent(1, At(1, 10, 0), 45, "Haircut", "+447700900001")},
    {Busy(1, At(0, 0, 0), At(21, 0, 0))},
    {Busy(1, At(0, 0, 0), At(14, 17, 35))} }

Frame(cal, minutes, from_dt, step_minutes, limit) ==
  [pc |-> "while", cal |-> cal, minutes |-> minutes, from_dt |-> from_dt,
   step_minutes |-> step_minutes, limit |-> limit,
   end_search |-> from_dt + SearchDays * DayMinutes,
   current |-> from_dt, found |-> <<>>]

ScanIterate ==
  /\ scan.pc = "while"
  /\ NasGuard(scan.limit, scan.end_search, scan.current, scan.found)
  /\ LET after == NasBody(scan.cal, scan.minutes, scan.step_minutes,
                          scan.current, scan.found)
     IN  scan' = [scan EXCEPT !.current = after.current, !.found = after.found]
  /\ UNCHANGED <<botVars, agentVars, storeVars>>

ScanReturn ==
  /\ scan.pc = "while"
  /\ ~NasGuard(scan.limit, scan.end_search, scan.current, scan.found)
  /\ scan' = [scan EXCEPT !.pc = "return"]
  /\ UNCHANGED <<botVars, agentVars, storeVars>>

InitSlots ==
  /\ BotIdle
  /\ server = Threaded
  /\ AgentIdle
  /\ StoreEmpty
  /\ scan \in {Frame(cal, minutes, from_dt, SLOT_STEP_MINUTES, SlotLimit) :
                 cal \in ScanCalendars, minutes \in ScanMinutes,
                 from_dt \in ScanFrom}

NextSlots == ScanIterate \/ ScanReturn

\* The loop is sequential code: an iteration that can run does run.
SpecSlots == InitSlots /\ [][NextSlots]_vars /\ WF_vars(NextSlots)

(***************************************************************************)
(* Properties of next_available_slots, checked under SpecSlots.            *)
(***************************************************************************)
InOpeningHours(start_dt, minutes) ==
  /\ Weekday(start_dt) \in OPEN_DAYS
  /\ TimeOfDay(start_dt) >= OPEN_TIME
  /\ TimeOfDay(start_dt) + minutes <= CLOSE_TIME

StrictlyIncreasing(slots) ==
  \A i \in 1..Len(slots), j \in 1..Len(slots) : i < j => slots[i] < slots[j]

\* C8: every slot collected by next_available_slots has its window
\* [slot, slot + minutes) inside the opening hours of an open day and
\* overlapping no event of the calendar.
C8_SlotsPassFullCheck ==
  scan.pc # "none" =>
    \A i \in 1..Len(scan.found) :
      /\ InOpeningHours(scan.found[i], scan.minutes)
      /\ is_time_available(scan.cal, scan.found[i],
                           scan.found[i] + scan.minutes)

\* C9: every slot collected by next_available_slots is at or after from_dt
\* and its minute of the day is a multiple of step_minutes, also when
\* from_dt is not.
C9_SlotsAlignedToStep ==
  scan.pc # "none" =>
    \A i \in 1..Len(scan.found) :
      /\ scan.found[i] >= scan.from_dt
      /\ TimeOfDay(scan.found[i]) % scan.step_minutes = 0

\* What next_available_slots has returned, once it has.
ReturnsAsStated ==
  scan.pc = "return" =>
    /\ Len(scan.found) = scan.limit \/ scan.current >= scan.end_search
    /\ Len(scan.found) <= scan.limit
    /\ StrictlyIncreasing(scan.found)
    /\ \A i \in 1..Len(scan.found) :
         scan.from_dt <= scan.found[i] /\ scan.found[i] < scan.end_search
    /\ (\A t \in scan.from_dt..(scan.end_search - 1) :
          ~is_time_available(scan.cal, t, t + scan.minutes))
       => scan.found = <<>>

\* C10: every call of next_available_slots returns; it returns when limit
\* slots are collected or the cursor has left the 14-day window, with at
\* most limit slots in strictly increasing order, and with the empty list
\* when no window of the search is free.
C10_ScanTerminates ==
  /\ <>(scan.pc = "return")
  /\ []ReturnsAsStated

\* C10 witness: a call has returned the empty list after walking a window in
\* which nothing was free.
C10_Witness ==
  /\ scan.pc = "return"
  /\ scan.found = <<>>
  /\ scan.current >= scan.end_search

(***************************************************************************)
(* ai_agent.py: the in-memory agent.  A booking text saves a pending       *)
(* booking, YES writes it to appointments.  The server handles requests    *)
(* in threads, so a YES handler can be overtaken between is_slot_taken and *)
(* its write: YesWrite is the rest of a handler that Yes has started.      *)
(* The fields granted and arrived record now_local() when the pending      *)
(* booking was saved and when YES came in; the code stores neither.        *)
(***************************************************************************)
MaxConfirming == 2
MaxClock == 11

AGENT_SERVICES == {"skin fade", "haircut", "beard"}
AgentTexts == {"haircut"}
\* Sunday 5pm, Sunday 7pm
AgentTimes == {At(6, 17, 0), At(6, 19, 0)}
AgentBodies == [service : AgentTexts \cup {"none"}, dt : AgentTimes \cup {NoDt}]
Waits == {11}

\* strftime("%Y-%m-%d %H:%M")
slot_key(dt) == <<dt \div DayMinutes, TimeOfDay(dt) \div 60, TimeOfDay(dt) % 60>>

\* is_slot_taken looking up a key without the minutes, "%Y-%m-%d %H".
is_slot_takenRaw(appts, dt) ==
  <<dt \div DayMinutes, TimeOfDay(dt) \div 60>> \in DOMAIN appts

is_slot_taken(appts, dt) == slot_key(dt) \in DOMAIN appts

Put(f, k, v) == [x \in DOMAIN f \cup {k} |-> IF x = k THEN v ELSE f[x]]

\* if from_number not in user_state: user_state[from_number] = {}
us(U, c) ==
  IF c \in DOMAIN U THEN U
  ELSE U @@ (c :> [pending |-> NoPending, chosen_service |-> "none"])

AgentOnly == UNCHANGED <<botVars, scan, storeVars>>

\* A worker of the agent's server is free to take the next request.
AgentFree == BagCardinality(confirming) < server.threads

\* The YES handler with the commit of whatever is pending.
YesUnchecked(c) ==
  LET U1 == us(user_state, c)
      pending == U1[c].pending
  IN  /\ AgentFree
      /\ IF pending = NoPending
         THEN /\ user_state' = U1
              /\ reply' = [to |-> c, kind |-> "no_pending"]
              /\ confirming' = confirming
         ELSE /\ BagCardinality(confirming) < MaxConfirming
              /\ user_state' = U1
              /\ confirming' = confirming (+) SetToBag(
                    {[from |-> c, service |-> pending.service, dt |-> pending.dt,
                      granted |-> pending.granted, arrived |-> clock]})
              /\ reply' = reply
      /\ UNCHANGED <<appointments, clock>>
      /\ AgentOnly

\* body in ["yes", "y", "confirm", "yeah", "yep"]
Yes(c) ==
  LET U1 == us(user_state, c)
      pending == U1[c].pending
  IN  /\ AgentFree
      /\ IF pending = NoPending
         THEN /\ user_state' = U1
              /\ reply' = [to |-> c, kind |-> "no_pending"]
              /\ confirming' = confirming
         ELSE IF is_slot_taken(appointments, pending.dt)
         THEN /\ user_state' = [U1 EXCEPT ![c].pending = NoPending]
              /\ reply' = [to |-> c, kind |-> "just_taken"]
              /\ confirming' = confirming
         ELSE /\ BagCardinality(confirming) < MaxConfirming
              /\ user_state' = U1
              /\ confirming' = confirming (+) SetToBag(
                    {[from |-> c, service |-> pending.service, dt |-> pending.dt,
                      granted |-> pending.granted, arrived |-> clock]})
              /\ reply' = reply
      /\ UNCHANGED <<appointments, clock>>
      /\ AgentOnly

\* The write of the YES handler without the pop of the pending booking.
YesWriteKeepsPending(r) ==
  /\ BagIn(r, confirming)
  /\ confirming' = confirming (-) SetToBag({r})
  /\ appointments' = Put(appointments, slot_key(r.dt),
                         [from |-> r.from, service |-> r.service])
  /\ user_state' = user_state
  /\ reply' = [to |-> r.from, kind |-> "booked"]
  /\ clock' = clock
  /\ AgentOnly

\* appointments[slot_key(dt)] = ...; pop pending; reply Booked
YesWrite(r) ==
  /\ BagIn(r, confirming)
  /\ confirming' = confirming (-) SetToBag({r})
  /\ appointments' = Put(appointments, slot_key(r.dt),
                         [from |-> r.from, service |-> r.service])
  /\ user_state' = [user_state EXCEPT ![r.from].pending = NoPending]
  /\ reply' = [to |-> r.from, kind |-> "booked"]
  /\ clock' = clock
  /\ AgentOnly

\* body in ["skin fade", "skinfade", "haircut", "beard"]
MenuOption(c, service_key) ==
  /\ AgentFree
  /\ user_state' = [us(user_state, c) EXCEPT ![c].chosen_service = service_key]
  /\ reply' = [to |-> c, kind |-> "chosen"]
  /\ UNCHANGED <<appointments, clock, confirming>>
  /\ AgentOnly

\* try_extract_booking found a service, a day or a time in the message.
BookingText(c, m) ==
  LET U1 == us(user_state, c)
      incomplete == m.service = "none" \/ m.dt = NoDt
      service_key == IF m.service # "none" THEN m.service
                     ELSE U1[c].chosen_service
      dt == m.dt
  IN  /\ AgentFree
      /\ ~(m.service = "none" /\ m.dt = NoDt)
      /\ IF incomplete /\ (service_key = "none" \/ dt = NoDt)
         THEN /\ user_state' = U1
              /\ reply' = [to |-> c, kind |-> "need_more"]
         ELSE IF is_slot_taken(appointments, dt)
         THEN /\ user_state' = U1
              /\ reply' = [to |-> c, kind |-> "already_booked"]
         ELSE /\ user_state' = [U1 EXCEPT ![c].pending =
                    [service |-> service_key, dt |-> dt, granted |-> clock]]
              /\ reply' = [to |-> c, kind |-> "confirm"]
      /\ UNCHANGED <<appointments, clock, confirming>>
      /\ AgentOnly

\* 4) fallback menu
Fallback(c) ==
  /\ AgentFree
  /\ user_state' = us(user_state, c)
  /\ reply' = [to |-> c, kind |-> "menu"]
  /\ UNCHANGED <<appointments, clock, confirming>>
  /\ AgentOnly

\* Time passes between two requests.
Tick(d) ==
  /\ clock + d <= MaxClock
  /\ clock' = clock + d
  /\ UNCHANGED <<appointments, user_state, confirming, reply>>
  /\ AgentOnly

InitAgent ==
  /\ BotIdle
  /\ server = Threaded
  /\ scan = NoScan
  /\ AgentIdle
  /\ StoreEmpty

NextAgent ==
  \/ \E c \in Customers : Yes(c)
  \/ \E r \in BagToSet(confirming) : YesWrite(r)
  \/ \E c \in Customers, k \in AgentTexts : MenuOption(c, k)
  \/ \E c \in Customers, m \in AgentBodies : BookingText(c, m)
  \/ \E c \in Customers : Fallback(c)
  \/ \E d \in Waits : Tick(d)

SpecAgent == InitAgent /\ [][NextAgent]_vars

\* The agent behind a server that handles one request at a time.
InitAgentSeq ==
  /\ BotIdle
  /\ server = OneByOne
  /\ scan = NoScan
  /\ AgentIdle
  /\ StoreEmpty

SpecAgentSeq == InitAgentSeq /\ [][NextAgent]_vars

(***************************************************************************)
(* Properties of the agent, checked under SpecAgent.                       *)
(***************************************************************************)
\* The YES handler r passes its re-check in this step.
Passes(r) == CopiesIn(r, confirming') > CopiesIn(r, confirming)

\* The YES handler r writes in this step.
Writes(r) == CopiesIn(r, confirming') < CopiesIn(r, confirming)

\* C4: a YES handler goes on to its write only if its own look at
\* appointments found the pending slot free; appointments changes only by
\* such a handler writing its pending booking; and a YES handler that finds
\* the slot taken drops the pending booking and writes nothing.
C4_CommitOnlyAfterRecheck ==
  [][/\ \A r \in BagToSet(confirming') :
          Passes(r) =>
            /\ slot_key(r.dt) \notin DOMAIN appointments
            /\ r.from \in DOMAIN user_state
            /\ user_state[r.from].pending =
                 [service |-> r.service, dt |-> r.dt, granted |-> r.granted]
     /\ appointments' # appointments =>
          \E r \in BagToSet(confirming) :
            /\ Writes(r)
            /\ appointments' = Put(appointments, slot_key(r.dt),
                                   [from |-> r.from, service |-> r.service])
     /\ \A c \in DOMAIN user_state :
          ( /\ user_state[c].pending # NoPending
            /\ slot_key(user_state[c].pending.dt) \in DOMAIN appointments
            /\ reply' # reply
            /\ reply'.to = c
            /\ reply'.kind \in {"just_taken", "booked"} )
          => /\ reply'.kind = "just_taken" \/ (\E r \in BagToSet(confirming) : Writes(r) /\ r.from = c)
             /\ reply'.kind = "just_taken" =>
                  /\ appointments' = appointments
                  /\ confirming' = confirming
                  /\ user_state'[c].pending = NoPending]_vars

\* C4 witness: a customer's YES has just been refused because another
\* customer holds the slot, and the pending booking is gone.
C4_Witness ==
  /\ reply.kind = "just_taken"
  /\ reply.to \in DOMAIN user_state
  /\ user_state[reply.to].pending = NoPending
  /\ \E k \in DOMAIN appointments : appointments[k].from # reply.to

Answered(c) == last' # last /\ last'.to = c

\* The session of c as the handler of its next message finds it.
Session(c) == st(State, c)[c]

\* C11: a menu or back message leaves the sender's session idle with
\* nothing kept, a pending confirmation included.  In ai_agent.py these
\* texts reach the fallback branch, which replies with the menu.
C11_ResetClearsSession ==
  [][\A c \in Customers :
       ( /\ reply' = [to |-> c, kind |-> "menu"]
         /\ reply' # reply \/ user_state' # user_state )
       => /\ c \in DOMAIN user_state'
          /\ user_state'[c] = [pending |-> NoPending, chosen_service |-> "none"]]_vars

\* C12: when a calendar call fails while a message is handled (listing,
\* availability, create, delete, update), the sender's session after the
\* message equals the session before it.
C12_FailureKeepsSession ==
  [][\A c \in Customers :
       ( /\ Answered(c)
         /\ last'.kind \in {"load_failed", "listing_failed", "raised", "failed",
                           "cancel_failed"} )
       => State'[c] = Session(c)]_vars

\* C13: every message is answered with a reply, also when a calendar call
\* fails in its handler: no handler ends by raising.
C13_EveryMessageAnswered == last.kind # "raised"

\* C14: handlers of one customer never interleave, so two identical
\* messages of one customer sent at the same time never both insert a
\* booking for the same service and start.
C14_NoTwinBookings ==
  \A a \in calendar, b \in calendar :
    (a.phone = b.phone /\ a.summary = b.summary /\ a.start = b.start)
    => a.id = b.id

\* C15: handling a message of customer c changes the session of no other
\* customer: every step leaves all sessions but one as they were, and that
\* one belongs to the customer who is answered or whose handler waits for
\* or returns from the calendar.
C15_OtherSessionsUntouched ==
  [][\E c \in Customers :
       /\ \A x \in Customers \ {c} :
            /\ x \in DOMAIN State' <=> x \in DOMAIN State
            /\ x \in DOMAIN State => State'[x] = State[x]
       /\ last' # last => last'.to = c
       /\ \A r \in BagToSet(inflight) \cup BagToSet(inflight') :
            CopiesIn(r, inflight') # CopiesIn(r, inflight) => r.cust = c]_vars

\* C15 witness: one customer has just reset its session with MENU while the
\* other is still asked for a time for its Haircut.
C15_Witness ==
  /\ last.kind = "menu"
  /\ \E x \in DOMAIN State :
       /\ x # last.to
       /\ State[x].step = "await_time"
       /\ State[x].service = SERVICES[1]

\* C16: a pending booking reserves nothing.  While customer c has one for a
\* start time, another customer can be booked on it; a YES of c that comes
\* after that is refused: it starts no write, changes no appointment and
\* drops the pending booking.
C16_PendingIsNoLock ==
  [][\A c \in DOMAIN user_state :
       ( /\ user_state[c].pending # NoPending
         /\ slot_key(user_state[c].pending.dt) \in DOMAIN appointments )
       => /\ ~\E r \in BagToSet(confirming') : Passes(r) /\ r.from = c
          /\ (user_state'[c].pending = NoPending /\ confirming' = confirming)
             => /\ appointments' = appointments
                /\ reply' = [to |-> c, kind |-> "just_taken"]]_vars

\* C16 witness: a customer still has a pending booking for a start time on
\* which another customer has been booked in the meantime.
C16_Witness ==
  \E c \in DOMAIN user_state :
    /\ user_state[c].pending # NoPending
    /\ slot_key(user_state[c].pending.dt) \in DOMAIN appointments
    /\ appointments[slot_key(user_state[c].pending.dt)].from # c
    /\ confirming = EmptyBag

(***************************************************************************)
(* More properties of the calendar bot under the threaded server, Spec.    *)
(***************************************************************************)
\* The handler r is suspended in this step: it has passed its checks and
\* is about to call the calendar.
Suspends(r) == CopiesIn(r, inflight') > CopiesIn(r, inflight)

\* C17: in step offer_slots a reply, an index as well as a typed time, goes
\* on to the insertion only if is_time_available, asked in the handling of
\* that reply, finds the window of the chosen start free; and every event
\* that appears on the calendar is inserted by a handler that went on so.
C17_OfferedPickRechecked ==
  [][/\ \A r \in BagToSet(inflight') :
          (Suspends(r) /\ r.step = "offer_slots") =>
            /\ r.op = "create"
            /\ within_opening(r.dt)
            /\ is_time_available(calendar, r.dt, r.dt + r.minutes)
     /\ \A e \in calendar' :
          e.id \notin EventIds(calendar) =>
            \E r \in BagToSet(inflight) :
              /\ Resumes(r)
              /\ r.op = "create"
              /\ e = NewEvent(e.id, r.dt, r.minutes, r.name, r.cust)]_vars

\* C17 witness: with a booking on the calendar, a handler that was sent the
\* index of an offered slot has found it free and is about to insert.
C17_Witness ==
  /\ calendar # {}
  /\ \E r \in BagToSet(inflight) :
       /\ r.step = "offer_slots"
       /\ r.op = "create"
       /\ r.dt \notin TIMES

(***************************************************************************)
(* More properties of the calendar bot answering one message at a time,    *)
(* SpecSeq.                                                                *)
(***************************************************************************)
\* C18: when the slot chosen in the offering phase is found taken by the
\* check made before the insertion, the session is left in step
\* offer_slots holding alternatives computed then, each of them free on the
\* calendar for the length of the service, and not the list offered before.
C18_TakenPickOffersFresh ==
  last.kind = "still_taken" =>
    LET s == State[last.to]
        minutes == IF s.service # NoService THEN s.service.minutes
                   ELSE DefaultMinutes
    IN  /\ s.step = "offer_slots"
        /\ \A i \in 1..Len(s.offered_slots) :
             is_time_available(calendar, s.offered_slots[i],
                               s.offered_slots[i] + minutes)

\* C19: in step await_time with a service selected, the reply that the
\* time is outside opening hours leaves every session as it was, step and
\* service included, and starts no insertion; the reply that the time is
\* taken is sent for a time within hours that is_time_available rejects,
\* stores next_available_slots from one step after it as offered_slots and
\* moves the session to step offer_slots, the calendar untouched; and the
\* session leaves await_time for offer_slots in no other way.
C19_AwaitTimeOutcomes ==
  [][\A c \in DOMAIN State :
       (State[c].step = "await_time" /\ State[c].service # NoService
          /\ Answered(c)) =>
         LET minutes == State[c].service.minutes
             taken == last'.kind \in {"offered", "taken_no_alternatives"}
         IN  /\ last'.kind = "outside_hours" =>
                  /\ State' = State
                  /\ calendar' = calendar
                  /\ inflight' = inflight
             /\ taken =>
                  /\ calendar' = calendar
                  /\ inflight' = inflight
                  /\ \E dt \in TIMES :
                       /\ within_opening(dt)
                       /\ ~is_time_available(calendar, dt, dt + minutes)
                       /\ State' = [State EXCEPT
                            ![c].step = "offer_slots",
                            ![c].offered_slots =
                               next_available_slots(calendar, minutes,
                                 dt + SLOT_STEP_MINUTES, SLOT_STEP_MINUTES,
                                 SlotLimit)]
                  /\ (last'.kind = "offered") =
                       (State'[c].offered_slots # <<>>)
             /\ State'[c].step = "offer_slots" => taken]_vars

\* C19 witness: with a booking on the calendar, a customer who was asked
\* for a time has just been told that the time sent is outside opening
\* hours.
C19_Witness ==
  /\ calendar # {}
  /\ last.kind = "outside_hours"
  /\ last.to \in DOMAIN State
  /\ State[last.to].step = "await_time"
  /\ State[last.to].service = SERVICES[1]

\* C20: the reply to "cancel" that lists bookings stores the customer's
\* upcoming bookings, at least one, moves the session to step cancel_pick
\* and leaves the calendar as it is; the reply that a booking is cancelled
\* is sent in step cancel_pick for a number within the stored list, removes
\* from the calendar the event listed under that number and no other, and
\* leaves the session idle; the reply asking for a valid number, sent in
\* step cancel_pick, changes neither the calendar nor any session; and no
\* event leaves the calendar in any other step.
C20_CancelSubFlow ==
  [][/\ \A c \in Customers :
          Answered(c) =>
            /\ last'.kind = "cancel_which" =>
                 /\ calendar' = calendar
                 /\ list_user_bookings(calendar, c, ListLimit) # <<>>
                 /\ State' = [st(State, c) EXCEPT
                      ![c].step = "cancel_pick",
                      ![c].pending_bookings =
                         list_user_bookings(calendar, c, ListLimit)]
            /\ last'.kind = "cancelled" =>
                 /\ Session(c).step = "cancel_pick"
                 /\ last'.digit \in 1..Len(Session(c).pending_bookings)
                 /\ LET chosen == Session(c).pending_bookings[last'.digit]
                    IN  /\ chosen.id \in EventIds(calendar)
                        /\ calendar' = {e \in calendar : e.id # chosen.id}
                 /\ State' = [st(State, c) EXCEPT ![c] = IdleSession]
            /\ (last'.kind = "invalid_number"
                  /\ Session(c).step = "cancel_pick") =>
                 /\ State' = State
                 /\ calendar' = calendar
     /\ (\E e \in calendar : e.id \notin EventIds(calendar')) =>
          (last' # last /\ last'.kind = "cancelled")]_vars

\* C20 witness: a customer with two bookings has cancelled the one listed
\* first and still has the other.
C20_Witness ==
  /\ last.kind = "cancelled"
  /\ last.digit = 1
  /\ State[last.to] = IdleSession
  /\ \E e \in calendar : e.phone = last.to

\* The steps in which a booking is being drafted.
DraftSteps == {"await_time", "offer_slots", "resched_time"}

\* C21: a session enters step cancel_pick or resched_pick only from a step
\* in which no booking is being drafted, never from await_time,
\* offer_slots or resched_time.
C21_SubFlowsEnteredFromIdle ==
  [][\A c \in DOMAIN State' :
       (State'[c].step \in {"cancel_pick", "resched_pick"}
          /\ Session(c).step # State'[c].step) =>
         Session(c).step \notin DraftSteps]_vars

\* C22: after the reply that the customer has no upcoming booking, sent to
\* "cancel" or "reschedule" (and to "my bookings"), the customer's session
\* is in step idle and the calendar is as it was.
C22_NothingToManageEndsIdle ==
  [][\A c \in Customers :
       (Answered(c) /\ last'.kind \in {"no_bookings", "none_upcoming"}) =>
         /\ State'[c].step = "idle"
         /\ calendar' = calendar]_vars

\* C23: in every session, offered_slots is empty unless the step is
\* offer_slots.
C23_OfferedOnlyWhileOffering ==
  \A c \in DOMAIN State :
    State[c].step # "offer_slots" => State[c].offered_slots = <<>>

\* C24: in every session, pending_bookings and resched_event are set only
\* in steps cancel_pick, resched_pick and resched_time, and are unset in
\* steps idle, await_time and offer_slots.
C24_TargetOnlyInSubFlows ==
  \A c \in DOMAIN State :
    State[c].step \in {"idle", "await_time", "offer_slots"} =>
      /\ State[c].pending_bookings = <<>>
      /\ State[c].resched_event = NoEvent

Reprompt(step) ==
  CASE step = "idle" -> "hint"
    [] step \in {"await_time", "resched_time"} -> "bad_time"
    [] step = "offer_slots" -> "pick_again"
    [] step \in {"cancel_pick", "resched_pick"} -> "invalid_number"

Reprompts == {"hint", "bad_time", "pick_again", "invalid_number"}

\* C26: a reply that asks again is the one of the step the session is in,
\* and the message it answers changes no session (step, service and every
\* other field stay), starts no calendar call and leaves the calendar as
\* it was.
C26_NoIntentChangesNothing ==
  [][\A c \in Customers :
       (Answered(c) /\ last'.kind \in Reprompts) =>
         /\ last'.kind = Reprompt(Session(c).step)
         /\ State' = st(State, c)
         /\ calendar' = calendar
         /\ inflight' = inflight
         /\ nextId' = nextId]_vars

\* C26 witness: with a booking on the calendar, a customer picking the
\* booking to reschedule has sent something that is no number and has been
\* asked again.
C26_Witness ==
  /\ calendar # {}
  /\ last.kind = "invalid_number"
  /\ last.to \in DOMAIN State
  /\ State[last.to].step = "resched_pick"
  /\ State[last.to].pending_bookings # <<>>

(***************************************************************************)
(* Properties of is_time_available on the calendars the bot reaches,       *)
(* checked under Spec.                                                     *)
(***************************************************************************)
\* The lengths of the windows the handlers ask about.
WindowMinutes == {SERVICES[i].minutes : i \in DOMAIN SERVICES} \cup {DefaultMinutes}

\* Starts of windows: the times customers type, the slots offered to them,
\* and around every event the starts that make a window touch it or
\* overlap it by one minute.
WindowStarts(minutes) ==
  TIMES
  \cup UNION {{State[c].offered_slots[i] : i \in DOMAIN State[c].offered_slots} :
               c \in DOMAIN State}
  \cup UNION {{e.start - minutes, e.start - minutes + 1, e.start,
               e.end - 1, e.end} : e \in calendar}

Named(digit) ==
  IF digit = 0 THEN TextServices ELSE {SERVICES[digit]}

\* C28: the reply asking for a time is sent from step idle to a message
\* that names a service of SERVICES and no time; that message stores the
\* service in the session, moves it to step await_time, changes nothing
\* else in any session, starts no insertion and leaves the calendar as it
\* was; and a session enters step await_time in no other way.
C28_ServiceOnlyAwaitsTime ==
  [][\A c \in Customers :
       /\ (Answered(c) /\ last'.kind = "ask_time") =>
            /\ Session(c).step = "idle"
            /\ \E svc \in Named(last'.digit) :
                 /\ \E i \in DOMAIN SERVICES : svc = SERVICES[i]
                 /\ State' = [st(State, c) EXCEPT ![c].step = "await_time",
                                                  ![c].service = svc]
            /\ calendar' = calendar
            /\ inflight' = inflight
            /\ nextId' = nextId
       /\ (c \in DOMAIN State' /\ State'[c].step = "await_time"
             /\ Session(c).step # "await_time") =>
            (Answered(c) /\ last'.kind = "ask_time")]_vars

\* C28 witness: with a booking on the calendar, a customer has sent the
\* menu number of Haircut and is asked for a time.
C28_Witness ==
  /\ calendar # {}
  /\ last.kind = "ask_time"
  /\ last.digit = 1
  /\ last.to \in DOMAIN State
  /\ State[last.to].step = "await_time"
  /\ State[last.to].service = SERVICES[1]

(***************************************************************************)
(* The bot on a calendar that already holds an event of the shop: the      *)
(* calendar CALENDAR_ID is the shop's own, and what the owner enters in it *)
(* is listed by events().list like any booking.  SpecHoliday starts with   *)
(* the shop marked away from Tuesday for fifteen days and answers one      *)
(* message at a time, the replies not recorded.                            *)
(***************************************************************************)
Holiday == Busy(0, At(1, 0, 0), At(16, 0, 0))

InitHoliday ==
  /\ State = [c \in {} |-> IdleSession]
  /\ calendar = {Holiday}
  /\ nextId = 1
  /\ inflight = EmptyBag
  /\ last = NoAnswer
  /\ server = [threads |-> 1, log |-> FALSE, senders |-> Customers]
  /\ scan = NoScan
  /\ AgentIdle
  /\ StoreEmpty

SpecHoliday == InitHoliday /\ [][Next]_vars

\* C29: whenever a session is in step offer_slots its offered_slots is not
\* empty: the step is not entered when next_available_slots found nothing.
C29_OfferingHasOffers ==
  \A c \in DOMAIN State :
    State[c].step = "offer_slots" => State[c].offered_slots # <<>>

(***************************************************************************)
(* Calendar writes of the bot answering one message at a time, checked     *)
(* under SpecSeq.                                                          *)
(***************************************************************************)
\* The calendar differs by at most one write: nothing, one event added
\* under a new id, one event removed, or one event moved.
AtMostOneWrite(cal, cal2) ==
  \/ cal2 = cal
  \/ \E e \in cal2 : e.id \notin EventIds(cal) /\ cal2 = cal \cup {e}
  \/ \E e \in cal : cal2 = cal \ {e}
  \/ \E e \in cal : \E f \in cal2 :
       /\ f.id = e.id /\ f.summary = e.summary /\ f.phone = e.phone
       /\ cal2 \ {f} = cal \ {e}

\* The sender's session is IdleSession (step idle, every other field
\* unset) after the step, the other sessions as they were.
ResetOf(c) == State' = [st(State, c) EXCEPT ![c] = IdleSession]

\* C30: the calendar changes only in the step in which a handler's one
\* calendar write returns (an insertion or a move resumed, or the deletion
\* replied to in cancel_pick), and by one write; and after every message
\* whose handler called a write, returned or raised, the sender's session
\* is reset.
C30_OneWriteThenReset ==
  [][/\ calendar' # calendar =>
          \/ \E r \in BagToSet(inflight) : Resumes(r)
          \/ last' # last /\ last'.kind = "cancelled"
     /\ AtMostOneWrite(calendar, calendar')
     /\ \A r \in BagToSet(inflight) : Resumes(r) => ResetOf(r.cust)
     /\ \A c \in Customers :
          (Answered(c) /\ last'.kind \in {"cancelled", "cancel_failed"}) =>
            ResetOf(c)]_vars

\* C30 witness: with a booking on the calendar, the calendar write of a
\* handler has raised, and the sender's session is idle again.
C30_Witness ==
  /\ calendar # {}
  /\ last.kind = "failed"
  /\ last.to \in DOMAIN State
  /\ State[last.to] = IdleSession
  /\ inflight = EmptyBag

(***************************************************************************)
(* The session record of the calendar bot, checked under Spec.             *)
(***************************************************************************)
Steps ==
  {"idle", "await_time", "offer_slots", "cancel_pick", "resched_pick",
   "resched_time"}

\* C31: in every session, step is one of the six steps; in await_time and
\* offer_slots a service is set; in cancel_pick and resched_pick
\* pending_bookings is a non-empty list; in resched_time resched_event is
\* set.
C31_SessionConsistent ==
  \A c \in DOMAIN State :
    LET s == State[c]
    IN  /\ s.step \in Steps
        /\ s.step \in {"await_time", "offer_slots"} => s.service # NoService
        /\ s.step \in {"cancel_pick", "resched_pick"} =>
             s.pending_bookings # <<>>
        /\ s.step = "resched_time" => s.resched_event # NoEvent

\* C31 witness: a session that came to offer_slots from resched_time, with
\* the service rebuilt from the event under reschedule.
C31_Witness ==
  \E c \in DOMAIN State :
    /\ State[c].step = "offer_slots"
    /\ State[c].resched_event # NoEvent
    /\ State[c].service # NoService
    /\ State[c].service.name = State[c].resched_event.service
    /\ State[c].offered_slots # <<>>


(***************************************************************************)
(* The webhook takes the sender from the form of the request: from_number  *)
(* = request.form.get("From", "").  Nothing checks that the request comes  *)
(* from Twilio, so a request without a From field is handled with the      *)
(* sender "".  SpecOpen is the bot handling one request at a time with one *)
(* customer and such a sender.                                             *)
(***************************************************************************)
NoFrom == ""

InitOpen ==
  /\ BotIdle
  /\ server = [threads |-> 1, log |-> FALSE,
               senders |-> {"+447700900001", NoFrom}]
  /\ scan = NoScan
  /\ AgentIdle
  /\ StoreEmpty

SpecOpen == InitOpen /\ [][Next]_vars

\* C32: cancel and reschedule only ever target a booking of the requesting
\* customer: an event that a step deletes or moves carries the number of the
\* sender whose request the step handles, the one whose cancel_pick session
\* the step resets or whose suspended handler the step resumes.
C32_OnlyOwnBookings ==
  [][\A e \in calendar :
       e \notin calendar' =>
         \/ /\ Session(e.phone).step = "cancel_pick"
            /\ State' = reset(State, e.phone)
         \/ \E r \in BagToSet(inflight) : Resumes(r) /\ r.cust = e.phone]_vars


(***************************************************************************)
(* Properties of the agent handling one message at a time, SpecAgentSeq.   *)
(***************************************************************************)
\* The pending booking of sender c; none for a sender the agent has not seen.
PendingOf(U, c) == us(U, c)[c].pending

\* C33: confirmation is single-shot.  A YES that books and a YES that finds
\* the slot taken both leave the sender without a pending booking; a YES of
\* a sender without a pending booking starts no write and leaves
\* appointments as they are; a write is started only for the pending booking
\* of its sender; and a sender without a pending booking gets one only by a
\* new booking request, the one answered with the question to confirm.
C33_ConfirmationSingleShot ==
  [][/\ \A r \in BagToSet(confirming) :
          Writes(r) => PendingOf(user_state', r.from) = NoPending
     /\ (reply' # reply /\ reply'.kind = "just_taken")
          => PendingOf(user_state', reply'.to) = NoPending
     /\ (reply' # reply /\ reply'.kind = "no_pending")
          => appointments' = appointments /\ confirming' = confirming
     /\ \A r \in BagToSet(confirming') :
          Passes(r) => /\ PendingOf(user_state, r.from) # NoPending
                       /\ PendingOf(user_state, r.from).dt = r.dt
     /\ appointments' # appointments
          => \E r \in BagToSet(confirming) : Writes(r)
     /\ \A c \in Customers :
          ( /\ PendingOf(user_state, c) = NoPending
            /\ PendingOf(user_state', c) # NoPending )
          => reply'.kind = "confirm" /\ reply'.to = c]_vars

\* C33 witness: a sender who holds an appointment and has no pending booking
\* has just been told that no booking is waiting to confirm.
C33_Witness ==
  /\ reply.kind = "no_pending"
  /\ PendingOf(user_state, reply.to) = NoPending
  /\ confirming = EmptyBag
  /\ \E k \in DOMAIN appointments : appointments[k].from = reply.to

\* C34: an appointment once written is never overwritten or removed when the
\* messages are handled one after the other: every slot key keeps the sender
\* and the service of the confirmation that wrote it first.
C34_AppointmentsWriteOnce ==
  [][\A k \in DOMAIN appointments :
       k \in DOMAIN appointments' /\ appointments'[k] = appointments[k]]_vars

\* C34 witness: the only appointment belongs to one sender, and another
\* sender's YES for a pending booking has just been refused as taken.
C34_Witness ==
  /\ Cardinality(DOMAIN appointments) = 1
  /\ reply.kind = "just_taken"
  /\ \A k \in DOMAIN appointments : appointments[k].from # reply.to


(***************************************************************************)
(* More properties of single messages, checked under SpecSeq.              *)
(***************************************************************************)
\* The step leaves customer c's session record, every other session and the
\* calendar as they are, and leaves no handler waiting at a calendar call.
NothingButReply(c) ==
  /\ State' = st(State, c)
  /\ calendar' = calendar
  /\ nextId' = nextId
  /\ inflight' = inflight

\* C35: a HELP or COMMANDS message and a message with a thanks word in it
\* are answered in every step of the session with the session record and
\* the calendar unchanged, whatever service or date/time the message also
\* names; a greeting is answered with the menu only in step idle, and
\* changes nothing either.
C35_HelpThanksGreetingChangeNothing ==
  [][\A c \in Customers :
       /\ (Answered(c) /\ last'.kind \in {"help", "thanks"})
            => NothingButReply(c)
       /\ (Answered(c) /\ last'.kind = "greeting")
            => Session(c).step = "idle" /\ NothingButReply(c)]_vars

\* C35 witness: a customer who is choosing among offered slots has just
\* been answered on a thanks message and is still choosing.
C35_Witness ==
  /\ last.kind = "thanks"
  /\ last.to \in DOMAIN State
  /\ State[last.to].step = "offer_slots"
  /\ State[last.to].offered_slots # <<>>
  /\ State[last.to].service # NoService


\* C36: a MY BOOKINGS message, in whatever step it arrives, leaves the
\* customer's session reset to idle, whether the listing shows bookings, is
\* empty or fails, and changes nothing in the calendar.
C36_MyBookingsResets ==
  [][\A c \in Customers :
       (Answered(c)
          /\ last'.kind \in {"bookings", "none_upcoming", "listing_failed"})
       => /\ State' = reset(State, c)
          /\ calendar' = calendar
          /\ nextId' = nextId
          /\ inflight' = inflight]_vars

\* C36 witness: the listing has just failed for a customer who holds a
\* booking, and the customer's session is the idle one.
C36_Witness ==
  /\ last.kind = "listing_failed"
  /\ last.to \in DOMAIN State
  /\ State[last.to] = IdleSession
  /\ \E e \in calendar : e.phone = last.to


(***************************************************************************)
(* Properties of the booking store, checked under SpecStore.               *)
(***************************************************************************)
\* What the calls h leave stored for a phone: the booking of the last
\* save_booking for it, unless a cancel_booking for it came later.
LastSaved(h, phone) ==
  LET writes == {i \in 1..Len(h) :
                   h[i].phone = phone /\ h[i].op \in {"save", "cancel"}}
  IN  IF writes = {} THEN NoBooking
      ELSE LET m == CHOOSE i \in writes : \A j \in writes : j <= i
           IN  IF h[m].op = "cancel" THEN NoBooking
               ELSE [service |-> h[m].service, day |-> h[m].day,
                     time |-> h[m].time]

\* C37: the store holds at most one row per phone; every get_booking made
\* so far returned the service, day and time of the last save_booking for
\* its phone that no cancel_booking for that phone followed, and None when
\* there was none; calls for another phone in between make no difference;
\* and the same is true of a get_booking made now.
C37_OneBookingPerPhone ==
  /\ \A a \in db, b \in db : a.phone = b.phone => a = b
  /\ \A i \in 1..Len(calls) :
       calls[i].op = "get"
         => calls[i].result = LastSaved(SubSeq(calls, 1, i - 1), calls[i].phone)
  /\ \A phone \in StorePhones : get_booking(db, phone) = LastSaved(calls, phone)

\* C37 witness: a phone has saved two different bookings, a get_booking for
\* it then returned the second, and the other phone's booking, saved before
\* them, is still in the store.
C37_Witness ==
  /\ Len(calls) = 4
  /\ calls[1].op = "save" /\ calls[2].op = "save" /\ calls[3].op = "save"
  /\ calls[1].phone # calls[2].phone
  /\ calls[2].phone = calls[3].phone
  /\ calls[2].time # calls[3].time
  /\ calls[4].op = "get" /\ calls[4].phone = calls[3].phone
  /\ calls[4].result.time = calls[3].time
  /\ get_booking(db, calls[1].phone).service = calls[1].service

====
